---- MODULE Spec2Model ----
(***************************************************************************)
(* Model of the nrf_dfu host-side updater: SLIP codec (slip.rs), DFU       *)
(* request/response layer (dfu.rs, protocol.rs) and the object transfer    *)
(* and orchestration of updater.rs.                                        *)
(*                                                                         *)
(* A u32 that holds a CRC is a tuple of its four little-endian bytes       *)
(* <<b0, b1, b2, b3>>, which is also its encoding on the wire; offsets and *)
(* sizes are naturals.                                                     *)
(***************************************************************************)
EXTENDS Integers, Sequences, FiniteSets, TLC

\* ------------------------------------------------------------------ bounds
MaxSlipLen == 3
MaxPayloadLen == 20
MaxFaults == 2
MaxRestarts == 2
MaxWindow == 5

\* ------------------------------------------------------- byte arithmetic
\* In the recursive definitions the parameters are first bound to their
\* values (x \in {a}), so that an argument is computed once, not at each of
\* its uses.
RECURSIVE XorBits(_, _)
XorBits(a, b) ==
    CHOOSE r \in {IF x = 0 THEN y
                  ELSE IF y = 0 THEN x
                  ELSE ((x + y) % 2) + 2 * XorBits(x \div 2, y \div 2) :
                  x \in {a}, y \in {b}} : TRUE

Xor32(x, y) == [i \in 1..4 |-> XorBits(x[i], y[i])]

Not32(x) == [i \in 1..4 |-> 255 - x[i]]

Shr1(x) == [i \in 1..4 |->
               (x[i] \div 2) + (IF i < 4 THEN (x[i + 1] % 2) * 128 ELSE 0)]

Shr8(x) == <<x[2], x[3], x[4], 0>>

Zero32 == <<0, 0, 0, 0>>

\* little-endian fixed-width integers (bincode fixint encoding)
LE16(n) == <<n % 256, (n \div 256) % 256>>

LE32(n) == <<n % 256, (n \div 256) % 256, (n \div 65536) % 256,
             (n \div 16777216) % 256>>

FromLE16(b) == b[1] + 256 * b[2]

FromLE32(b) == b[1] + 256 * b[2] + 65536 * b[3] + 16777216 * b[4]

\* ------------------------------------------------------------ CRC-32/IEEE
IEEE_POLY == <<32, 131, 184, 237>>   \* 0xEDB88320, reflected polynomial

RECURSIVE TableStep(_, _)
TableStep(c, n) ==
    CHOOSE r \in {IF n = 0 THEN x
                  ELSE TableStep(IF x[1] % 2 = 1
                                 THEN Xor32(IEEE_POLY, Shr1(x)) ELSE Shr1(x),
                                 n - 1) : x \in {c}} : TRUE

IEEE_TABLE == [i \in 0..255 |-> TableStep(<<i, 0, 0, 0>>, 8)]

RECURSIVE CrcFold(_, _)
CrcFold(value, bytes) ==
    CHOOSE r \in {IF b = <<>> THEN v
                  ELSE CrcFold(Xor32(IEEE_TABLE[XorBits(v[1], Head(b))],
                                     Shr8(v)), Tail(b)) :
                  v \in {value}, b \in {bytes}} : TRUE

crc32_update(value, bytes) == Not32(CrcFold(Not32(value), bytes))

checksum_ieee(bytes) == crc32_update(Zero32, bytes)

\* ------------------------------------------------------------- SLIP codec
SLIP_END == 192       \* 0xC0
SLIP_ESC == 219       \* 0xDB
SLIP_ESC_END == <<219, 220>>
SLIP_ESC_ESC == <<219, 221>>
FRAME_START == 96     \* 0x60

\* The read loop of decoded_read: the stream is the bytes the reader can
\* still deliver; read_exact on an exhausted stream is an I/O error.
RECURSIVE SlipReadLoop(_, _)
SlipReadLoop(stream, data) ==
    CHOOSE r \in {
      IF s = <<>> THEN [res |-> "IoError", kind |-> "UnexpectedEof",
                        data |-> <<>>, rest |-> <<>>]
      ELSE IF Head(s) = SLIP_ESC THEN
          IF Tail(s) = <<>> THEN [res |-> "IoError", kind |-> "UnexpectedEof",
                                  data |-> <<>>, rest |-> <<>>]
          ELSE IF s[2] = 220 THEN
              SlipReadLoop(Tail(Tail(s)), Append(d, SLIP_END))
          ELSE IF s[2] = 221 THEN
              SlipReadLoop(Tail(Tail(s)), Append(d, SLIP_ESC))
          ELSE SlipReadLoop(Tail(Tail(s)), d)
      ELSE IF Head(s) = SLIP_END THEN
          [res |-> "Ok", kind |-> "None", data |-> d, rest |-> Tail(s)]
      ELSE SlipReadLoop(Tail(s), Append(d, Head(s))) :
      s \in {stream}, d \in {data}} : TRUE

decoded_read(stream) ==
    IF stream = <<>> THEN [res |-> "IoError", kind |-> "UnexpectedEof",
                           data |-> <<>>, rest |-> <<>>]
    ELSE IF Head(stream) = FRAME_START THEN SlipReadLoop(Tail(stream), <<>>)
    ELSE [res |-> "IoError", kind |-> "Other", data |-> <<>>,
          rest |-> Tail(stream)]

\* mutation: ESC bytes are not escaped
RECURSIVE SlipEscape_EndOnly(_)
SlipEscape_EndOnly(buf) ==
    IF buf = <<>> THEN <<>>
    ELSE (IF Head(buf) = SLIP_END THEN SLIP_ESC_END ELSE <<Head(buf)>>)
         \o SlipEscape_EndOnly(Tail(buf))

\* the flat_map of encoded_write: the escaped bytes of buf
RECURSIVE SlipEscape(_)
SlipEscape(buf) ==
    CHOOSE r \in {IF b = <<>> THEN <<>>
                  ELSE (IF Head(b) = SLIP_END THEN SLIP_ESC_END
                        ELSE IF Head(b) = SLIP_ESC THEN SLIP_ESC_ESC
                        ELSE <<Head(b)>>) \o SlipEscape(Tail(b)) :
                  b \in {buf}} : TRUE

slip_frame(buf) == SlipEscape(buf) \o <<SLIP_END>>

\* encoded_write on a writer whose write call accepts up to cap bytes
\* (cap = 0: the write call fails): one write call, then flush.
encoded_write(cap, buf) ==
    LET frame == slip_frame(buf)
        size == IF cap < Len(frame) THEN cap ELSE Len(frame)
    IN IF cap = 0 THEN [res |-> "IoError", size |-> 0, wire |-> <<>>]
       ELSE [res |-> "Ok", size |-> size, wire |-> SubSeq(frame, 1, size)]

\* ------------------------------------------------- DFU request registry
Requests == {"ProtocolVersionRequest", "ObjectCreateRequest",
             "SetReceiptNotifyRequest", "GetCrcRequest",
             "ObjectExecuteRequest", "ObjectSelectRequest", "GetMtuRequest",
             "ObjectWriteRequest_ObjectWriteResponse",
             "ObjectWriteRequest_NoResponse", "PingRequest",
             "GetHardwareVersionRequest", "GetFirmwareVersionRequest",
             "AbortRequest"}

\* the opcode constant each request type declares
OPCODE(r) ==
    CASE r = "ProtocolVersionRequest" -> 0
      [] r = "ObjectCreateRequest" -> 1
      [] r = "SetReceiptNotifyRequest" -> 2
      [] r = "GetCrcRequest" -> 3
      [] r = "ObjectExecuteRequest" -> 4
      [] r = "ObjectSelectRequest" -> 6
      [] r = "GetMtuRequest" -> 7
      [] r = "ObjectWriteRequest_ObjectWriteResponse" -> 3
      [] r = "ObjectWriteRequest_NoResponse" -> 8
      [] r = "PingRequest" -> 9
      [] r = "GetHardwareVersionRequest" -> 10
      [] r = "GetFirmwareVersionRequest" -> 11
      [] r = "AbortRequest" -> 12

\* mutation: the acknowledged write is sent with its declared opcode
REQUEST_OPCODE_Declared(r) == OPCODE(r)

\* first byte dfu_write puts on the wire: the declared opcode, except for the
\* acknowledged write, whose dfu_write is overridden to send 0x08
REQUEST_OPCODE(r) ==
    IF r = "ObjectWriteRequest_ObjectWriteResponse" THEN 8 ELSE OPCODE(r)

\* opcode dfu_read expects in the first byte of the decoded response
RESPONSE_OPCODE(r) == OPCODE(r)

\* the Response associated type; NoResponse requests are never answered
NoResponseRequests == {"ObjectWriteRequest_NoResponse", "AbortRequest"}

\* number of payload bytes the response struct deserializes
ResponseSize(r) ==
    CASE r = "ProtocolVersionRequest" -> 1
      [] r = "GetCrcRequest" -> 8
      [] r = "ObjectSelectRequest" -> 12
      [] r = "GetMtuRequest" -> 2
      [] r = "ObjectWriteRequest_ObjectWriteResponse" -> 8
      [] r = "PingRequest" -> 1
      [] r = "GetHardwareVersionRequest" -> 20
      [] r = "GetFirmwareVersionRequest" -> 13
      [] OTHER -> 0

\* mutation: the arm of 0x09 is missing
DfuErrorFrom_NoExtended(err_code) ==
    CASE err_code = 0 -> "InvalidOpcode"
      [] err_code = 2 -> "OpcodeNotSupported"
      [] err_code = 3 -> "InvalidParameter"
      [] err_code = 4 -> "InsufficientResources"
      [] err_code = 5 -> "InvalidObject"
      [] err_code = 6 -> "UnsupportedType"
      [] err_code = 7 -> "OperationNotPermitted"
      [] err_code = 8 -> "OperationFailed"
      [] OTHER -> "UnknownError"

DfuErrorFrom(err_code) ==
    CASE err_code = 0 -> "InvalidOpcode"
      [] err_code = 2 -> "OpcodeNotSupported"
      [] err_code = 3 -> "InvalidParameter"
      [] err_code = 4 -> "InsufficientResources"
      [] err_code = 5 -> "InvalidObject"
      [] err_code = 6 -> "UnsupportedType"
      [] err_code = 7 -> "OperationNotPermitted"
      [] err_code = 8 -> "OperationFailed"
      [] err_code = 9 -> "ExtendedError"
      [] OTHER -> "UnknownError"

\* request_data of dfu_write: opcode byte, then the serialized fields
dfu_write(r, fields) == <<REQUEST_OPCODE(r)>> \o fields

\* Outcome of dfu_read for request r on the bytes the reader can deliver.
\* res is Ok, IOError, DfuError or Panic (assert / unwrap); rest is what is
\* left unread on the stream.
DfuResponse_dfu_read(r, stream) ==
    LET rd == decoded_read(stream)
        response == rd.data
    IN IF rd.res # "Ok" THEN
           [res |-> "IOError", kind |-> rd.kind, payload |-> <<>>,
            rest |-> rd.rest, read |-> TRUE]
       ELSE IF Len(response) < 2 THEN
           [res |-> "Panic", kind |-> "assert", payload |-> <<>>,
            rest |-> rd.rest, read |-> TRUE]
       ELSE IF response[1] # RESPONSE_OPCODE(r) THEN
           [res |-> "DfuError", kind |-> "InvalidOpcode", payload |-> <<>>,
            rest |-> rd.rest, read |-> TRUE]
       ELSE IF response[2] # 1 THEN
           [res |-> "DfuError", kind |-> DfuErrorFrom(response[2]),
            payload |-> <<>>, rest |-> rd.rest, read |-> TRUE]
       ELSE IF Len(response) - 2 < ResponseSize(r) THEN
           [res |-> "Panic", kind |-> "unwrap", payload |-> <<>>,
            rest |-> rd.rest, read |-> TRUE]
       ELSE [res |-> "Ok", kind |-> "None",
             payload |-> SubSeq(response, 3, 2 + ResponseSize(r)),
             rest |-> rd.rest, read |-> TRUE]

\* NoResponse overrides dfu_read: the reader is not touched
NoResponse_dfu_read(r, stream) ==
    [res |-> "Ok", kind |-> "None", payload |-> <<>>, rest |-> stream,
     read |-> FALSE]

dfu_read(r, stream) ==
    IF r \in NoResponseRequests THEN NoResponse_dfu_read(r, stream)
    ELSE DfuResponse_dfu_read(r, stream)

\* ------------------------------------------------------ firmware archive
Roles == {"softdevice_bootloader", "bootloader", "application"}

\* FirmwareData of each role of the archive: dat is the init packet, bin the
\* image
FirmwareData(r) ==
    CASE r = "softdevice_bootloader" -> [dat |-> <<8>>, bin |-> <<1, 2, 3, 4>>]
      [] r = "bootloader" -> [dat |-> <<9>>, bin |-> <<5, 6>>]
      [] r = "application" -> [dat |-> <<10, 11>>, bin |-> <<1, 2, 3>>]

Command == 1
Data == 2
ObjectType == {Command, Data}

\* the slice transfer_object is called with, by update_module
ImageOf(r, object_type) ==
    IF object_type = Command THEN FirmwareData(r).dat ELSE FirmwareData(r).bin

VARIABLES
    archive,    \* FirmwareArchive: the set of roles that are Some
    updater,    \* Updater fields: prn, chunk_size, force
    pc,         \* position of the update() call
    role,       \* the module update_module is running for
    xfer,       \* locals of transfer_object / write_object
    err,        \* the error update_module returned (err of update())
    result,     \* what update() returned
    dev,        \* the device behind the NordicDevice port
    log,        \* requests handed to the transport in this session
    events,     \* sleep and reset() calls of this session, in order
    faults,     \* transport/device faults injected so far
    lied,       \* the device has reported something untrue
    restarts,   \* injected host session restarts (K)
    sent,       \* payload bytes sent in ObjectWrite requests, per image
    fn          \* harness of the pure-function specifications

vars == <<archive, updater, pc, role, xfer, err, result, dev, log, events,
          faults, lied, restarts, sent, fn>>

\* ------------------------------------------------------------ the device
\* The device keeps, per object type, the bytes of the objects it has
\* executed and the bytes of the object window it is receiving.
EmptyObject == [exec |-> <<>>, win |-> <<>>]

DevOffset(d, k) == Len(d.obj[k].exec) + Len(d.obj[k].win)

DevCrc(d, k) == checksum_ieee(d.obj[k].exec \o d.obj[k].win)

DevSelect(d, k) == [d EXCEPT !.cur = k]

DevCreate(d, k) == [d EXCEPT !.cur = k, !.obj[k].win = <<>>]

DevWrite(d, bytes) == [d EXCEPT !.obj[d.cur].win = @ \o bytes]

DevExecute(d) ==
    [d EXCEPT !.obj[d.cur].exec = @ \o d.obj[d.cur].win,
              !.obj[d.cur].win = <<>>]

DevReset(d) == [d EXCEPT !.obj = [k \in ObjectType |-> EmptyObject]]

\* payloads of the truthful replies
SelectReply(d, k) == LE32(d.max_size) \o LE32(DevOffset(d, k)) \o DevCrc(d, k)

CrcReply(d) == LE32(DevOffset(d, d.cur)) \o DevCrc(d, d.cur)

\* ---------------------------------------------------------------- faults
StatusFaults == {"Status2", "Status8"}

FaultStatus(f) == IF f = "Status2" THEN 2 ELSE 8

\* what can go wrong with one request: the write fails; nothing arrives;
\* the frame does not start with 0x60; the reply carries another opcode, an
\* error status or too few payload bytes; the reply is untrue
FaultsOf(r) ==
    IF r \in NoResponseRequests THEN {"WriteErr"}
    ELSE {"WriteErr", "ReadErr", "Framing", "BadOpcode"} \cup StatusFaults
         \cup (IF ResponseSize(r) > 0 THEN {"Short", "Lie"} ELSE {})

WrongOpcode(r) == IF RESPONSE_OPCODE(r) = 3 THEN 8 ELSE 3

\* an untrue payload: the first byte differs (the ping id, the low byte of
\* max_size, offset or mtu), and for CRC-carrying replies the CRC's low byte
Untrue(r, payload) ==
    IF r \in {"GetCrcRequest", "ObjectWriteRequest_ObjectWriteResponse"} THEN
        [payload EXCEPT ![5] = (@ + 1) % 256]
    ELSE IF r = "ObjectSelectRequest" THEN
        [payload EXCEPT ![9] = (@ + 1) % 256]
    ELSE [payload EXCEPT ![1] = (@ + 1) % 256]

\* the bytes the device port delivers in answer to request r
ReplyStream(r, payload, f) ==
    IF r \in NoResponseRequests \/ f = "ReadErr" THEN <<>>
    ELSE IF f = "Framing" THEN
        <<SLIP_END>> \o slip_frame(<<RESPONSE_OPCODE(r), 1>> \o payload)
    ELSE IF f = "BadOpcode" THEN
        <<FRAME_START>> \o slip_frame(<<WrongOpcode(r), 1>> \o payload)
    ELSE IF f \in StatusFaults THEN
        <<FRAME_START>> \o slip_frame(<<RESPONSE_OPCODE(r), FaultStatus(f)>>)
    ELSE IF f = "Short" THEN
        <<FRAME_START>> \o slip_frame(<<RESPONSE_OPCODE(r), 1>>
                                      \o SubSeq(payload, 1, Len(payload) - 1))
    ELSE IF f = "Lie" THEN
        <<FRAME_START>> \o slip_frame(<<RESPONSE_OPCODE(r), 1>>
                                      \o Untrue(r, payload))
    ELSE <<FRAME_START>> \o slip_frame(<<RESPONSE_OPCODE(r), 1>> \o payload)

\* the device acts on a request it received and did not reject
Applied(f) == f \notin ({"WriteErr"} \cup StatusFaults)

\* Updater::request: dfu_write, then dfu_read of the request's Response type
request(r, fields, payload, f) ==
    CHOOSE o \in UNION {
      {IF w.res # "Ok" THEN
           [res |-> "IOError", kind |-> "Write", payload |-> <<>>,
            data |-> request_data, wrote |-> FALSE, read |-> FALSE,
            stream |-> <<>>, rx |-> 0]
       ELSE [res |-> rd.res, kind |-> rd.kind, payload |-> rd.payload,
             data |-> request_data, wrote |-> TRUE, read |-> rd.read,
             stream |-> stream, rx |-> Len(stream) - Len(rd.rest)] :
         w \in {encoded_write(IF f = "WriteErr" THEN 0
                              ELSE Len(slip_frame(request_data)),
                              request_data)},
         rd \in {dfu_read(r, stream)}} :
      request_data \in {dfu_write(r, fields)},
      stream \in {ReplyStream(r, payload, f)}} : TRUE

\* ----------------------------------------------------- initial conditions
Stale == <<7, 7, 7, 7, 7>>

Min(a, b) == IF a < b THEN a ELSE b

\* the ways a device with windows of m bytes can hold the bytes s
Splits(s, m) ==
    {[exec |-> SubSeq(s, 1, e), win |-> SubSeq(s, e + 1, Len(s))] :
        e \in {x \in 0..Len(s) : x % m = 0 /\ Len(s) - x <= m}}

\* what an earlier session can have left in the device: part of this image,
\* part of another image, or a window of another image after executed
\* windows of this one
Leftovers(img, m) ==
    UNION {UNION {Splits(SubSeq(s, 1, n), m) : n \in 1..Len(s)} :
             s \in {img, SubSeq(Stale, 1, Len(img) + 1),
                    SubSeq(img, 1, Min(m, Len(img))) \o <<7>>}}

Archives == SUBSET Roles

\* sessions on a device without leftovers, for every archive
OrchestrationConfigs ==
    [archive : Archives, force : BOOLEAN, prn : {5}, mtu : {4},
     max_size : {2, 3}, obj : {[k \in ObjectType |-> EmptyObject]}]

\* sessions of one image on a device with leftovers
TransferConfigs ==
    LET r == "softdevice_bootloader"
        dat == FirmwareData(r).dat
        bin == FirmwareData(r).bin
    IN UNION {
         [archive : {{r}}, force : BOOLEAN, prn : {0, 1, 2}, mtu : {4, 6},
          max_size : {m},
          obj : {[k \in ObjectType |->
                    IF k = Command THEN c ELSE EmptyObject] :
                    c \in Leftovers(dat, m)}
                \cup
                {[k \in ObjectType |->
                    IF k = Command THEN [exec |-> dat, win |-> <<>>] ELSE d] :
                    d \in Leftovers(bin, m)}] : m \in {2, 3, 4}}

Configs == OrchestrationConfigs \cup TransferConfigs

NoError == [res |-> "None", kind |-> "None"]

Idle == [object_type |-> Command, object_max_size |-> 0, object_offset |-> 0,
         object_crc |-> Zero32, object_end |-> 0, c0 |-> Zero32, pos |-> 0,
         prn_count |-> 0]

FnIdle == [pc |-> "off"]

\* Updater::new, and the device the port is connected to
Init ==
    /\ \E cfg \in Configs :
         /\ archive = cfg.archive
         /\ updater = [prn |-> cfg.prn, chunk_size |-> 0, force |-> cfg.force]
         /\ dev = [max_size |-> cfg.max_size, mtu |-> cfg.mtu, cur |-> Command,
                   obj |-> cfg.obj]
    /\ pc = "update"
    /\ role = "none"
    /\ xfer = Idle
    /\ err = NoError
    /\ result = NoError
    /\ log = <<>>
    /\ events = <<>>
    /\ faults = 0
    /\ lied = FALSE
    /\ restarts = 0
    /\ sent = [r \in Roles |-> [k \in ObjectType |-> 0]]
    /\ fn = FnIdle

\* ------------------------------------------------------------ bookkeeping
Ok == [res |-> "Ok", kind |-> "None"]

\* faults are injected into sessions that were not restarted
Allowed(r) ==
    {"None"} \cup (IF faults < MaxFaults /\ restarts = 0 THEN FaultsOf(r)
                   ELSE {})

\* the request is handed to the transport; the fault is accounted for
Record(r, o, f) ==
    /\ log' = Append(log, [role |-> role, req |-> r, data |-> o.data,
                           wrote |-> o.wrote, read |-> o.read,
                           stream |-> o.stream, rx |-> o.rx, res |-> o.res,
                           kind |-> o.kind])
    /\ faults' = IF f = "None" THEN faults ELSE faults + 1
    /\ lied' = (lied \/ f = "Lie")

\* mutation: the error is returned without the Abort
Raise_NoAbort(e) ==
    /\ pc' = IF e.res = "Panic" THEN "panicked" ELSE "returned"
    /\ err' = e

\* `?` inside update_module: the error goes to update(); a panic unwinds
Raise(e) ==
    /\ pc' = IF e.res = "Panic" THEN "panicked" ELSE "abort"
    /\ err' = e

ErrorOf(o) == [res |-> o.res, kind |-> o.kind]

Panic(kind) == [res |-> "Panic", kind |-> kind]

\* mutation: the arm is missing
IsOpcodeNotSupported_Never(o) == FALSE

\* the match arm Err(Error::DfuError(DfuError::OpcodeNotSupported))
IsOpcodeNotSupported(o) == o.res = "DfuError" /\ o.kind = "OpcodeNotSupported"

\* ---------------------------------------------------------------- update
\* the module the first if / else-if of update() selects
FirstModule(a) ==
    IF "softdevice_bootloader" \in a THEN "softdevice_bootloader"
    ELSE IF "bootloader" \in a THEN "bootloader"
    ELSE "none"

\* mutation: `if` in place of `else if`, bootloader follows
\* softdevice_bootloader
NextModule_NoElse(a, r) ==
    IF r = "none" /\ "softdevice_bootloader" \in a THEN "softdevice_bootloader"
    ELSE IF r \in {"none", "softdevice_bootloader"} /\ "bootloader" \in a
    THEN "bootloader"
    ELSE IF r # "application" /\ "application" \in a THEN "application"
    ELSE "none"

\* the module update() turns to after module r (r = "none": at entry)
NextModule(a, r) ==
    IF r = "none" /\ FirstModule(a) # "none" THEN FirstModule(a)
    ELSE IF r # "application" /\ "application" \in a THEN "application"
    ELSE "none"

\* entry of update(): the first module is selected, or update returns
UpdateBegin ==
    /\ pc = "update"
    /\ LET r == NextModule(archive, "none")
       IN /\ role' = r
          /\ pc' = IF r = "none" THEN "returned" ELSE "ping"
          /\ result' = IF r = "none" THEN Ok ELSE result
    /\ UNCHANGED <<archive, updater, xfer, err, dev, log, events, faults,
                   lied, restarts, sent, fn>>

\* ---------------------------------------------------------- update_module
Ping ==
    /\ pc = "ping"
    /\ \E f \in Allowed("PingRequest") :
         \E o \in {request("PingRequest", <<127>>, <<127>>, f)} :
            /\ Record("PingRequest", o, f)
            /\ IF o.res = "Ok" THEN
                   IF o.payload[1] # 127
                   THEN Raise([res |-> "PingMismatch", kind |-> "None"])
                   ELSE pc' = "prn" /\ err' = err
               ELSE IF IsOpcodeNotSupported(o)
               THEN pc' = "prn" /\ err' = err
               ELSE Raise(ErrorOf(o))
    /\ UNCHANGED <<archive, updater, role, xfer, result, dev, events,
                   restarts, sent, fn>>

SetReceiptNotify ==
    /\ pc = "prn"
    /\ \E f \in Allowed("SetReceiptNotifyRequest") :
         \E o \in {request("SetReceiptNotifyRequest", LE16(updater.prn),
                          <<>>, f)} :
            /\ Record("SetReceiptNotifyRequest", o, f)
            /\ IF o.res = "Ok" THEN pc' = "mtu" /\ err' = err
               ELSE Raise(ErrorOf(o))
    /\ UNCHANGED <<archive, updater, role, xfer, result, dev, events,
                   restarts, sent, fn>>

\* (mtu / 2) - 1 in u16: below 2 the subtraction overflows, which panics
\* in a build with overflow checks and wraps to 65535 without
\* (-1 stands for the panic)
ChunkSizes(mtu) ==
    IF mtu \div 2 = 0 THEN {-1, 65535} ELSE {(mtu \div 2) - 1}

\* mutation: the Data object is transferred first
Enter_Data(object_type) == [Idle EXCEPT !.object_type = Data]

\* entry of transfer_object for an object type
Enter(object_type) == [Idle EXCEPT !.object_type = object_type]

GetMtu ==
    /\ pc = "mtu"
    /\ \E f \in Allowed("GetMtuRequest") :
         \E o \in {request("GetMtuRequest", <<>>, LE16(dev.mtu), f)} :
            /\ Record("GetMtuRequest", o, f)
            /\ IF o.res = "Ok" THEN
                   \E c \in ChunkSizes(FromLE16(o.payload)) :
                      IF c = -1
                      THEN /\ Raise(Panic("overflow"))
                           /\ UNCHANGED <<updater, xfer>>
                      ELSE /\ updater' = [updater EXCEPT !.chunk_size = c]
                           /\ xfer' = Enter(Command)
                           /\ pc' = "select"
                           /\ err' = err
               ELSE IF IsOpcodeNotSupported(o)
               THEN /\ updater' = [updater EXCEPT !.chunk_size = 223]
                    /\ xfer' = Enter(Command)
                    /\ pc' = "select"
                    /\ err' = err
               ELSE Raise(ErrorOf(o)) /\ UNCHANGED <<updater, xfer>>
    /\ UNCHANGED <<archive, role, result, dev, events, restarts, sent, fn>>

\* -------------------------------------------------------- transfer_object
data == ImageOf(role, xfer.object_type)

\* mutation: the reported offset is kept under force
ForcedOffset_Reported(force, offset) == offset

\* if self.force { object_offset = 0; .. }
ForcedOffset(force, offset) == IF force THEN 0 ELSE offset

ObjectSelect ==
    /\ pc = "select"
    /\ \E f \in Allowed("ObjectSelectRequest") :
         LET k == xfer.object_type
         IN \E o \in {request("ObjectSelectRequest", <<k>>,
                               SelectReply(dev, k), f)} :
            /\ Record("ObjectSelectRequest", o, f)
            /\ dev' = IF Applied(f) THEN DevSelect(dev, k) ELSE dev
            /\ IF o.res = "Ok" THEN
                   /\ xfer' = [xfer EXCEPT
                        !.object_max_size = FromLE32(SubSeq(o.payload, 1, 4)),
                        !.object_offset =
                            ForcedOffset(updater.force,
                                         FromLE32(SubSeq(o.payload, 5, 8))),
                        !.object_crc =
                            IF updater.force THEN Zero32
                            ELSE SubSeq(o.payload, 9, 12)]
                   /\ pc' = "loop"
                   /\ err' = err
               ELSE Raise(ErrorOf(o)) /\ xfer' = xfer
    /\ UNCHANGED <<archive, updater, role, result, events, restarts, sent, fn>>

\* mutation: update_module returns after the Command object
Finish_CommandOnly == pc' = "module_ok" /\ xfer' = xfer

\* transfer_object returns Ok: update_module goes on with the Data object,
\* or returns Ok itself
Finish ==
    IF xfer.object_type = Command
    THEN pc' = "select" /\ xfer' = Enter(Data)
    ELSE pc' = "module_ok" /\ xfer' = xfer

\* mutation: a window boundary alone does not trigger the execute
AtWindowBoundary_Never(object_offset, object_max_size) == FALSE

\* object_offset > 0 && (object_offset % object_max_size) == 0
AtWindowBoundary(object_offset, object_max_size) ==
    object_offset > 0 /\ object_offset % object_max_size = 0

\* head of the loop: the execute-or-finish check
LoopHead ==
    /\ pc = "loop"
    /\ LET off == xfer.object_offset
           max == xfer.object_max_size
       IN IF off > 0 /\ max = 0 THEN
              /\ Raise(Panic("rem by zero"))
              /\ UNCHANGED <<xfer, dev, log, faults, lied>>
          ELSE IF AtWindowBoundary(off, max)
                  \/ (off = Len(data) /\ xfer.object_crc = checksum_ieee(data))
          THEN
              \E f \in Allowed("ObjectExecuteRequest") :
                 \E o \in {request("ObjectExecuteRequest", <<>>, <<>>, f)} :
                    /\ Record("ObjectExecuteRequest", o, f)
                    /\ dev' = IF Applied(f) THEN DevExecute(dev) ELSE dev
                    /\ IF o.res = "Ok" THEN
                           /\ err' = err
                           /\ IF off = Len(data) THEN Finish
                              ELSE pc' = "window" /\ xfer' = xfer
                       ELSE Raise(ErrorOf(o)) /\ xfer' = xfer
          ELSE /\ pc' = "window"
               /\ UNCHANGED <<xfer, err, dev, log, faults, lied>>
    /\ UNCHANGED <<archive, updater, role, result, events, restarts, sent, fn>>

\* object_size as u32 when object_end < object_offset and the subtraction
\* wraps: 2^32 - d
Wrapped(d) == Not32(LE32(d - 1))

\* entry of write_object on data[object_offset..object_end]
BeginWrite(object_end) ==
    IF xfer.object_offset > object_end THEN
        Raise(Panic("slice")) /\ xfer' = xfer
    ELSE IF updater.chunk_size = 0 THEN
        Raise(Panic("chunks(0)")) /\ xfer' = xfer
    ELSE /\ pc' = "write"
         /\ err' = err
         /\ xfer' = [xfer EXCEPT !.object_end = object_end,
                                 !.c0 = xfer.object_crc,
                                 !.pos = xfer.object_offset,
                                 !.prn_count = 0]

\* window boundary and create-or-continue, up to the call of write_object
CreateOrContinue ==
    /\ pc = "window"
    /\ LET off == xfer.object_offset
           max == xfer.object_max_size
           k == xfer.object_type
       IN IF max = 0 THEN
              /\ Raise(Panic("rem by zero"))
              /\ UNCHANGED <<xfer, dev, log, faults, lied>>
          ELSE
          LET object_end == Min(Len(data), off - (off % max) + max)
          IN IF off % max # 0 /\ off > Len(data) THEN
                 /\ Raise(Panic("slice"))
                 /\ UNCHANGED <<xfer, dev, log, faults, lied>>
             ELSE IF off % max = 0
                     \/ xfer.object_crc # checksum_ieee(SubSeq(data, 1, off))
             THEN
                 \E build \in (IF object_end < off THEN {"checked", "wrapping"}
                               ELSE {"any"}) :
                    IF build = "checked" THEN
                        /\ Raise(Panic("overflow"))
                        /\ UNCHANGED <<xfer, dev, log, faults, lied>>
                    ELSE
                    \E f \in Allowed("ObjectCreateRequest") :
                       LET size == IF object_end < off
                                   THEN Wrapped(off - object_end)
                                   ELSE LE32(object_end - off)
                       IN \E o \in {request("ObjectCreateRequest",
                                             <<k>> \o size, <<>>, f)} :
                          /\ Record("ObjectCreateRequest", o, f)
                          /\ dev' = IF Applied(f) THEN DevCreate(dev, k)
                                    ELSE dev
                          /\ IF o.res = "Ok" THEN BeginWrite(object_end)
                             ELSE Raise(ErrorOf(o)) /\ xfer' = xfer
             ELSE /\ BeginWrite(object_end)
                  /\ UNCHANGED <<dev, log, faults, lied>>
    /\ UNCHANGED <<archive, updater, role, result, events, restarts, sent, fn>>

\* mutation: the CRC of the chunk alone
RunningCrc_Fresh(object_crc, chunk) == checksum_ieee(chunk)

\* object_crc = crc32::update(object_crc, &crc32::IEEE_TABLE, chunk)
RunningCrc(object_crc, chunk) == crc32_update(object_crc, chunk)

\* mutation: the receipt is asked for one chunk late
Acknowledged_Late(prn, prn_count) == prn > 0 /\ ~(prn_count < prn)

\* the else branch of `if prn_count < self.prn - 1`, under `if self.prn > 0`:
\* the chunk is sent as an acknowledged write
Acknowledged(prn, prn_count) == prn > 0 /\ ~(prn_count < prn - 1)

\* one iteration of the loop of write_object
WriteChunk ==
    /\ pc = "write"
    /\ xfer.pos < xfer.object_end
    /\ LET chunk == SubSeq(data, xfer.pos + 1,
                           Min(xfer.pos + updater.chunk_size, xfer.object_end))
           object_crc == RunningCrc(xfer.object_crc, chunk)
           ack == Acknowledged(updater.prn, xfer.prn_count)
           r == IF ack THEN "ObjectWriteRequest_ObjectWriteResponse"
                ELSE "ObjectWriteRequest_NoResponse"
           prn_count == IF updater.prn > 0
                        THEN (IF xfer.prn_count < updater.prn - 1
                              THEN xfer.prn_count + 1 ELSE 0)
                        ELSE xfer.prn_count
       IN \E f \in Allowed(r) :
            \E o \in {request(r, chunk, CrcReply(DevWrite(dev, chunk)), f)} :
               /\ Record(r, o, f)
               /\ dev' = IF Applied(f) THEN DevWrite(dev, chunk) ELSE dev
               /\ sent' = [sent EXCEPT ![role][xfer.object_type] =
                              IF o.wrote THEN @ + Len(chunk) ELSE @]
               /\ xfer' = [xfer EXCEPT !.object_crc = object_crc,
                                       !.prn_count = prn_count,
                                       !.pos = @ + Len(chunk)]
               /\ IF o.res = "Ok" THEN
                      IF ack /\ SubSeq(o.payload, 5, 8) # object_crc
                      THEN Raise([res |-> "CrcMismatch", kind |-> "None"])
                      ELSE pc' = "write" /\ err' = err
                  ELSE Raise(ErrorOf(o))
    /\ UNCHANGED <<archive, updater, role, result, events, restarts, fn>>

\* mutation: the offset of the CrcGet reply is dropped
Reconciled_Kept(object_offset, offset) == object_offset

\* object_offset = offset as usize
Reconciled(object_offset, offset) == offset

\* write_object has returned: reconcile with CrcGet
GetCrc ==
    /\ pc = "write"
    /\ xfer.pos >= xfer.object_end
    /\ \E f \in Allowed("GetCrcRequest") :
         \E o \in {request("GetCrcRequest", <<>>, CrcReply(dev), f)} :
            /\ Record("GetCrcRequest", o, f)
            /\ IF o.res = "Ok" THEN
                   /\ xfer' = [xfer EXCEPT !.object_offset =
                                   Reconciled(@, FromLE32(SubSeq(o.payload,
                                                                 1, 4)))]
                   /\ IF SubSeq(o.payload, 5, 8) # xfer.object_crc
                      THEN Raise([res |-> "CrcMismatch", kind |-> "None"])
                      ELSE pc' = "loop" /\ err' = err
               ELSE Raise(ErrorOf(o)) /\ xfer' = xfer
    /\ UNCHANGED <<archive, updater, role, result, dev, events, restarts,
                   sent, fn>>

\* ------------------------------------------------------- update, the rest
\* mutation: the application is reset into, too
AfterModule_AppReset(r) ==
    CASE r = "softdevice_bootloader" ->
           <<[call |-> "sleep", arg |-> 1000],
             [call |-> "reset", arg |-> "Bootloader"]>>
      [] r = "bootloader" ->
           <<[call |-> "sleep", arg |-> 500],
             [call |-> "reset", arg |-> "Bootloader"]>>
      [] r = "application" ->
           <<[call |-> "sleep", arg |-> 500],
             [call |-> "reset", arg |-> "Application"]>>

\* what update() does after update_module returned Ok for a module
AfterModule(r) ==
    CASE r = "softdevice_bootloader" ->
           <<[call |-> "sleep", arg |-> 1000],
             [call |-> "reset", arg |-> "Bootloader"]>>
      [] r = "bootloader" ->
           <<[call |-> "sleep", arg |-> 500],
             [call |-> "reset", arg |-> "Bootloader"]>>
      [] r = "application" -> <<[call |-> "sleep", arg |-> 500]>>

ModuleDone ==
    /\ pc = "module_ok"
    /\ events' = events \o AfterModule(role)
    /\ dev' = IF role = "application" THEN dev ELSE DevReset(dev)
    /\ LET r == NextModule(archive, role)
       IN /\ role' = r
          /\ pc' = IF r = "none" THEN "returned" ELSE "ping"
          /\ result' = IF r = "none" THEN Ok ELSE result
    /\ UNCHANGED <<archive, updater, xfer, err, log, faults, lied, restarts,
                   sent, fn>>

\* mutation: `return Err(err)` is missing, update() goes on as after a
\* successful module
Abort_FallThrough ==
    /\ pc = "abort"
    /\ \E f \in Allowed("AbortRequest") :
         \E o \in {request("AbortRequest", <<>>, <<>>, f)} :
            /\ Record("AbortRequest", o, f)
            /\ result' = IF o.res = "Ok" THEN err ELSE ErrorOf(o)
    /\ pc' = "module_ok"
    /\ UNCHANGED <<archive, updater, role, xfer, err, dev, events, restarts,
                   sent, fn>>

\* update_module returned Err(err): self.request(AbortRequest)?; Err(err)
Abort ==
    /\ pc = "abort"
    /\ \E f \in Allowed("AbortRequest") :
         \E o \in {request("AbortRequest", <<>>, <<>>, f)} :
            /\ Record("AbortRequest", o, f)
            /\ result' = IF o.res = "Ok" THEN err ELSE ErrorOf(o)
    /\ pc' = "returned"
    /\ UNCHANGED <<archive, updater, role, xfer, err, dev, events, restarts,
                   sent, fn>>

\* The host session is restarted during the transfer of the only image of
\* the archive, or after it failed: a new Updater runs update() against the
\* device as it is.
Restart ==
    /\ restarts < MaxRestarts
    /\ faults = 0
    /\ ~updater.force
    /\ Cardinality(archive) = 1
    /\ pc \in {"ping", "prn", "mtu", "select", "loop", "window", "write",
               "abort", "returned"}
    /\ result # Ok
    /\ restarts' = restarts + 1
    /\ pc' = "update"
    /\ role' = "none"
    /\ xfer' = Idle
    /\ err' = NoError
    /\ result' = NoError
    /\ log' = <<>>
    /\ events' = <<>>
    /\ updater' = [updater EXCEPT !.chunk_size = 0]
    /\ UNCHANGED <<archive, dev, faults, lied, sent, fn>>

Next ==
    \/ UpdateBegin
    \/ Ping
    \/ SetReceiptNotify
    \/ GetMtu
    \/ ObjectSelect
    \/ LoopHead
    \/ CreateOrContinue
    \/ WriteChunk
    \/ GetCrc
    \/ ModuleDone
    \/ Abort
    \/ Restart

Spec == Init /\ [][Next]_vars

\* ---------------------------------------- the codec and dfu_read by itself
\* In these specifications no update() is running; fn holds the argument
\* and the result of the function applied.
MainOff ==
    /\ archive = {}
    /\ updater = [prn |-> 5, chunk_size |-> 0, force |-> FALSE]
    /\ dev = [max_size |-> 2, mtu |-> 4, cur |-> Command,
              obj |-> [k \in ObjectType |-> EmptyObject]]
    /\ pc = "off"
    /\ role = "none"
    /\ xfer = Idle
    /\ err = NoError
    /\ result = NoError
    /\ log = <<>>
    /\ events = <<>>
    /\ faults = 0
    /\ lied = FALSE
    /\ restarts = 0
    /\ sent = [r \in Roles |-> [k \in ObjectType |-> 0]]

main == <<archive, updater, pc, role, xfer, err, result, dev, log, events,
          faults, lied, restarts, sent>>

RECURSIVE SeqsUpTo(_, _)
SeqsUpTo(S, n) ==
    IF n = 0 THEN {<<>>}
    ELSE LET shorter == SeqsUpTo(S, n - 1)
         IN shorter \cup {Append(q, x) : q \in shorter, x \in S}

SlipBytes == {SLIP_END, SLIP_ESC, 220, 221, FRAME_START, 1}

\* bytes that follow the frame on the stream
SlipTails == {<<>>, <<FRAME_START, 1, SLIP_END>>, <<SLIP_END>>}

\* what one write call of the writer accepts: nothing (an error), one byte,
\* or whatever it is offered
WriterCaps == {0, 1, 2 * MaxSlipLen + 3}

InitSlip ==
    /\ MainOff
    /\ \E b \in SeqsUpTo(SlipBytes, MaxSlipLen), t \in SlipTails,
          c \in WriterCaps :
         fn = [pc |-> "encoded_write", buf |-> b, tail |-> t, cap |-> c]

SlipWrite ==
    /\ fn.pc = "encoded_write"
    /\ LET w == encoded_write(fn.cap, fn.buf)
       IN fn' = [pc |-> "decoded_read", buf |-> fn.buf, tail |-> fn.tail,
                 cap |-> fn.cap, wres |-> w.res, size |-> w.size,
                 wire |-> w.wire]
    /\ UNCHANGED main

\* the peer's frames start with 0x60
SlipRead ==
    /\ fn.pc = "decoded_read"
    /\ fn.wres = "Ok"
    /\ LET stream == <<FRAME_START>> \o fn.wire \o fn.tail
           rd == decoded_read(stream)
       IN fn' = [pc |-> "slip_done", buf |-> fn.buf, tail |-> fn.tail,
                 cap |-> fn.cap, wres |-> fn.wres, size |-> fn.size,
                 wire |-> fn.wire, out |-> rd]
    /\ UNCHANGED main

NextSlip == SlipWrite \/ SlipRead

SpecSlip == InitSlip /\ [][NextSlip]_vars

\* decoded frames offered to dfu_read: any opcode of interest, any status,
\* a payload of any length up to the bound, and frames below two bytes
FrameOpcodes(r) == {RESPONSE_OPCODE(r), REQUEST_OPCODE(r), 3, 8, FRAME_START}

FrameStatuses == 0..11 \cup {255}

Filler(n) == [i \in 1..n |-> IF i = 1 THEN 127 ELSE (191 + i) % 256]

DfuFrames(r) ==
    {<<>>} \cup {<<op>> : op \in FrameOpcodes(r)}
    \cup {<<op, st>> \o Filler(n) :
            op \in FrameOpcodes(r), st \in FrameStatuses,
            n \in 0..MaxPayloadLen}

InitDfu ==
    /\ MainOff
    /\ \E r \in Requests : \E fr \in DfuFrames(r) :
         fn = [pc |-> "dfu_read", req |-> r, frame |-> fr]

DfuRead ==
    /\ fn.pc = "dfu_read"
    /\ LET stream == <<FRAME_START>> \o slip_frame(fn.frame)
       IN fn' = [pc |-> "dfu_done", req |-> fn.req, frame |-> fn.frame,
                 stream |-> stream, out |-> dfu_read(fn.req, stream)]
    /\ UNCHANGED main

NextDfu == DfuRead

SpecDfu == InitDfu /\ [][NextDfu]_vars

\* ------------------------------------- sessions against a faithful device
\* what a device with windows of m bytes holds of an image after earlier
\* sessions that transferred this image: a prefix of it
Prefixes(img, m) == UNION {Splits(SubSeq(img, 1, n), m) : n \in 0..Len(img)}

\* one image, on a device that holds a prefix of the init packet and a prefix
\* of the image; or any archive, forced or not, on an empty device
FaithfulConfigs ==
    UNION {[archive : {{r}}, force : {FALSE}, prn : {0, 1, 2, 5},
            mtu : {4, 6, 8}, max_size : {m},
            obj : {[k \in ObjectType |-> IF k = Command THEN c ELSE d] :
                      c \in Prefixes(FirmwareData(r).dat, m),
                      d \in Prefixes(FirmwareData(r).bin, m)}] :
              r \in Roles, m \in 1..MaxWindow}
    \cup [archive : Archives, force : BOOLEAN, prn : {1}, mtu : {4},
          max_size : {3}, obj : {[k \in ObjectType |-> EmptyObject]}]

InitFaithful ==
    /\ \E cfg \in FaithfulConfigs :
         /\ archive = cfg.archive
         /\ updater = [prn |-> cfg.prn, chunk_size |-> 0, force |-> cfg.force]
         /\ dev = [max_size |-> cfg.max_size, mtu |-> cfg.mtu, cur |-> Command,
                   obj |-> cfg.obj]
    /\ pc = "update"
    /\ role = "none"
    /\ xfer = Idle
    /\ err = NoError
    /\ result = NoError
    /\ log = <<>>
    /\ events = <<>>
    /\ faults = 0
    /\ lied = FALSE
    /\ restarts = 0
    /\ sent = [r \in Roles |-> [k \in ObjectType |-> 0]]
    /\ fn = FnIdle

\* the transport delivers every request and the device answers it
\* truthfully, with success
Answered == faults' = 0

NextFaithful ==
    \/ UpdateBegin
    \/ Ping /\ Answered
    \/ SetReceiptNotify /\ Answered
    \/ GetMtu /\ Answered
    \/ ObjectSelect /\ Answered
    \/ LoopHead /\ Answered
    \/ CreateOrContinue /\ Answered
    \/ WriteChunk /\ Answered
    \/ GetCrc /\ Answered
    \/ ModuleDone

\* update() runs on: a step that can be taken is taken
SpecFaithful == InitFaithful /\ [][NextFaithful]_vars /\ WF_vars(NextFaithful)

\* ------------------------------------ sessions against any device's replies
\* a device may report any MTU, any max_size, and an offset beyond the image
AnyReplyConfigs ==
    LET r == "application"
        dat == FirmwareData(r).dat
        bin == FirmwareData(r).bin
    IN [archive : {{r}}, force : BOOLEAN, prn : {1}, mtu : 0..5,
        max_size : {0},
        obj : {[k \in ObjectType |-> EmptyObject],
               [k \in ObjectType |->
                  IF k = Command THEN [exec |-> <<>>, win |-> <<7>>]
                  ELSE EmptyObject]}]
       \cup UNION {
         [archive : {{r}}, force : BOOLEAN, prn : {1}, mtu : 0..5,
          max_size : {m},
          obj : {[k \in ObjectType |-> EmptyObject]}
                \cup {[k \in ObjectType |->
                         IF k = Command THEN c ELSE EmptyObject] :
                         c \in Leftovers(dat, m)}
                \cup {[k \in ObjectType |->
                         IF k = Command THEN [exec |-> dat, win |-> <<>>]
                         ELSE d] : d \in Leftovers(bin, m)}] : m \in {1, 2}}

InitAnyReply ==
    /\ \E cfg \in AnyReplyConfigs :
         /\ archive = cfg.archive
         /\ updater = [prn |-> cfg.prn, chunk_size |-> 0, force |-> cfg.force]
         /\ dev = [max_size |-> cfg.max_size, mtu |-> cfg.mtu, cur |-> Command,
                   obj |-> cfg.obj]
    /\ pc = "update"
    /\ role = "none"
    /\ xfer = Idle
    /\ err = NoError
    /\ result = NoError
    /\ log = <<>>
    /\ events = <<>>
    /\ faults = 0
    /\ lied = FALSE
    /\ restarts = 0
    /\ sent = [r \in Roles |-> [k \in ObjectType |-> 0]]
    /\ fn = FnIdle

SpecAnyReply == InitAnyReply /\ [][Next]_vars

\* ================================================================= claims
AbortsIn(l) == {i \in 1..Len(l) : l[i].req = "AbortRequest"}

Returned == pc = "returned"

\* C1: a run of update() that returns an error has handed exactly one Abort
\* request (request_data = <<0x0C>>) to the transport, as its last request,
\* after the failing step; a run that returns success has handed none; and
\* no run hands over more than one.
C1_AbortOnFailure ==
    /\ Cardinality(AbortsIn(log)) <= 1
    /\ (Returned /\ result # Ok) =>
          /\ AbortsIn(log) = {Len(log)}
          /\ Len(log) >= 2
          /\ log[Len(log)].data = <<12>>
          /\ err # NoError
    /\ (Returned /\ result = Ok) => AbortsIn(log) = {}
    /\ AbortsIn(log) # {} => Returned

C1_Witness ==
    /\ Returned
    /\ result = [res |-> "CrcMismatch", kind |-> "None"]
    /\ xfer.object_type = Data
    /\ AbortsIn(log) = {Len(log)}

\* C2: when update_module failed with error E, update() returns E, also
\* when the Abort request itself failed.
C2_OriginalErrorReturned ==
    (Returned /\ err # NoError) => result = err

\* C3: when transfer_object has returned success against a device that
\* reported nothing untrue, the bytes the device has executed for the object
\* are the image.
C3_SuccessMeansImageExecuted ==
    ~lied =>
       /\ pc = "module_ok" =>
             dev.obj[Data].exec = ImageOf(role, Data)
       /\ (pc = "module_ok"
           \/ (pc \in {"select", "loop", "window", "write"}
               /\ xfer.object_type = Data)) =>
             dev.obj[Command].exec = ImageOf(role, Command)

BootloaderBytes ==
    {FirmwareData("bootloader").dat[i] :
        i \in 1..Len(FirmwareData("bootloader").dat)}
    \cup {FirmwareData("bootloader").bin[i] :
            i \in 1..Len(FirmwareData("bootloader").bin)}

WriteRequests == {"ObjectWriteRequest_ObjectWriteResponse",
                  "ObjectWriteRequest_NoResponse"}

\* C4: with softdevice_bootloader and bootloader both in the archive,
\* update_module never runs for bootloader: no request is emitted for it and
\* no ObjectWrite carries a byte of its init packet or image.
C4_BootloaderSkipped ==
    ({"softdevice_bootloader", "bootloader"} \subseteq archive) =>
       /\ role # "bootloader"
       /\ \A i \in 1..Len(log) :
            /\ log[i].role # "bootloader"
            /\ log[i].req \in WriteRequests =>
                 \A j \in 2..Len(log[i].data) :
                    log[i].data[j] \notin BootloaderBytes

C4_Witness ==
    /\ {"softdevice_bootloader", "bootloader"} \subseteq archive
    /\ Returned
    /\ result = Ok
    /\ \E i \in 1..Len(log) : log[i].req \in WriteRequests

\* C5: with force = false and a device that answers truthfully, after K
\* restarts of the transfer of an image the ObjectWrite requests of all
\* sessions together carry at most len(image) + K * max_size bytes.
C5_ResendBound ==
    (~updater.force /\ faults = 0 /\ Cardinality(archive) = 1) =>
       \A r \in archive : \A k \in ObjectType :
          sent[r][k] <= Len(ImageOf(r, k)) + restarts * dev.max_size

C5_Witness ==
    /\ ~updater.force
    /\ faults = 0
    /\ restarts = MaxRestarts
    /\ Returned
    /\ result = Ok
    /\ \E r \in archive : sent[r][Data] = Len(ImageOf(r, Data))

\* payload bytes of the ObjectWrite requests at the end of the log
RECURSIVE TailWrites(_)
TailWrites(l) ==
    IF l = <<>> \/ l[Len(l)].req \notin WriteRequests THEN <<>>
    ELSE TailWrites(SubSeq(l, 1, Len(l) - 1)) \o Tail(l[Len(l)].data)

\* C6: throughout write_object(c0, bytes) the running CRC is the CRC-32/IEEE
\* update of c0 with the bytes sent so far, the bytes sent so far are a
\* prefix of bytes, chunk after chunk; when write_object returns, all of
\* bytes has been sent once and the CRC is the update of c0 with bytes.
C6_WriteObjectCrc ==
    pc = "write" =>
       LET bytes == SubSeq(data, xfer.object_offset + 1, xfer.object_end)
           done == xfer.pos - xfer.object_offset
       IN /\ xfer.pos <= xfer.object_end
          /\ TailWrites(log) = SubSeq(bytes, 1, done)
          /\ xfer.object_crc = crc32_update(xfer.c0, SubSeq(bytes, 1, done))
          /\ xfer.pos >= xfer.object_end =>
                xfer.object_crc = crc32_update(xfer.c0, bytes)

C6_Witness ==
    /\ pc = "write"
    /\ xfer.pos = xfer.object_end
    /\ xfer.object_end - xfer.object_offset = 3
    /\ updater.chunk_size = 2
    /\ updater.prn = 2
    /\ xfer.c0 # Zero32
    /\ log[Len(log)].req = "ObjectWriteRequest_ObjectWriteResponse"

\* C7: decoding 0x60 followed by the frame encoded_write produced for b,
\* followed by any further bytes, returns b and leaves exactly the further
\* bytes unread.
C7_SlipRoundTrip ==
    (fn.pc = "slip_done" /\ fn.size = Len(slip_frame(fn.buf))) =>
       /\ fn.out.res = "Ok"
       /\ fn.out.data = fn.buf
       /\ fn.out.rest = fn.tail

C7_Witness ==
    /\ fn.pc = "slip_done"
    /\ fn.buf = <<SLIP_END, SLIP_ESC, FRAME_START>>
    /\ fn.tail = <<FRAME_START, 1, SLIP_END>>
    /\ fn.wire = <<219, 220, 219, 221, 96, 192>>
    /\ fn.out.data = fn.buf

\* the status table of the wire protocol
StatusTable(s) ==
    IF s \in 0..9 /\ s # 1
    THEN <<"InvalidOpcode", "-", "OpcodeNotSupported", "InvalidParameter",
           "InsufficientResources", "InvalidObject", "UnsupportedType",
           "OperationNotPermitted", "OperationFailed", "ExtendedError">>[s + 1]
    ELSE "UnknownError"

RECURSIVE FirstEnd(_, _)
FirstEnd(stream, i) ==
    IF i > Len(stream) THEN 0
    ELSE IF stream[i] = SLIP_END THEN i
    ELSE FirstEnd(stream, i + 1)

\* the opcode byte of the first frame of a stream (-1: none)
FrameOpcode(stream) ==
    LET rd == decoded_read(stream)
    IN IF rd.res = "Ok" /\ Len(rd.data) >= 1 THEN rd.data[1] ELSE -1

\* C9: every ObjectWrite is emitted with first byte 0x08; after an
\* acknowledged one the host reads one frame, up to its END byte, and
\* accepts it only with opcode byte 0x03 (a frame tagged 0x08 is rejected
\* with InvalidOpcode); after an unacknowledged ObjectWrite and after Abort
\* the host reads nothing.
C9_WriteOpcodeAliasing ==
    \A i \in 1..Len(log) :
       LET e == log[i]
       IN /\ e.req \in WriteRequests => e.data[1] = 8
          /\ (e.req = "ObjectWriteRequest_ObjectWriteResponse" /\ e.wrote) =>
                /\ e.read
                /\ e.res = "Ok" =>
                      (FrameOpcode(e.stream) = 3
                       /\ e.rx = FirstEnd(e.stream, 1))
                /\ FrameOpcode(e.stream) = 8 =>
                      (e.res = "DfuError" /\ e.kind = "InvalidOpcode")
          /\ e.req \in {"ObjectWriteRequest_NoResponse", "AbortRequest"} =>
                (~e.read /\ e.rx = 0)

C9_Witness ==
    \E i \in 1..Len(log) : \E j \in 1..Len(log) :
       /\ i < j
       /\ log[i].req = "ObjectWriteRequest_NoResponse"
       /\ log[i + 1].req = "ObjectWriteRequest_ObjectWriteResponse"
       /\ log[i + 1].res = "Ok"
       /\ log[j].req = "ObjectWriteRequest_ObjectWriteResponse"
       /\ FrameOpcode(log[j].stream) = 8
       /\ log[j].res = "DfuError"

NotSupported(e) == e.res = "DfuError" /\ e.kind = "OpcodeNotSupported"

\* C10: an OpcodeNotSupported reply to Ping is followed by ReceiptNotifySet;
\* to MtuGet, by chunk size 223 and the ObjectSelect of the Command object;
\* to any other request, by the end of update_module with
\* DfuError(OpcodeNotSupported), after which only the Abort is sent.
C10_NotSupportedTerminal ==
    \A i \in 1..Len(log) :
       NotSupported(log[i]) =>
          IF log[i].req = "PingRequest" THEN
              IF i = Len(log) THEN pc = "prn" /\ err = NoError
              ELSE log[i + 1].req = "SetReceiptNotifyRequest"
          ELSE IF log[i].req = "GetMtuRequest" THEN
              IF i = Len(log)
              THEN /\ pc = "select"
                   /\ err = NoError
                   /\ updater.chunk_size = 223
                   /\ xfer.object_type = Command
              ELSE /\ log[i + 1].req = "ObjectSelectRequest"
                   /\ log[i + 1].data = <<6, Command>>
          ELSE /\ err = [res |-> "DfuError", kind |-> "OpcodeNotSupported"]
               /\ IF i = Len(log) THEN pc = "abort"
                  ELSE /\ i + 1 = Len(log)
                       /\ log[i + 1].req = "AbortRequest"
                       /\ Returned

C10_Witness ==
    /\ pc = "abort"
    /\ Len(log) > 4
    /\ NotSupported(log[3])
    /\ log[3].req = "GetMtuRequest"
    /\ updater.chunk_size = 223
    /\ NotSupported(log[Len(log)])
    /\ log[Len(log)].req = "ObjectWriteRequest_ObjectWriteResponse"

\* the reset() calls among the events of the session
ResetsIn(ev) == {i \in 1..Len(ev) : ev[i].call = "reset"}

\* the events of the modules update() has completed before module r
EventsBefore(a, r) ==
    IF r = "application" /\ FirstModule(a) # "none"
    THEN AfterModule(FirstModule(a))
    ELSE <<>>

\* C11: once update_module has failed for a module (an error or a panic),
\* update() has made and makes no sleep or reset call for that module, the
\* events are those of the modules completed before it, no request of a
\* later module is in the log, and after the failing request only the Abort
\* is emitted.
C11_NoResetAfterFailure ==
    err # NoError =>
       /\ events = EventsBefore(archive, role)
       /\ role # "application" => ResetsIn(events) = {}
       /\ \A i \in 1..Len(log) :
            /\ log[i].role \in {role, FirstModule(archive)}
            /\ (role # "application") => log[i].role = role
            /\ log[i].req = "AbortRequest" => (i = Len(log) /\ i > 1)
       /\ pc \in {"abort", "returned", "panicked"}

C11_Witness ==
    /\ err # NoError
    /\ Returned
    /\ role = "softdevice_bootloader"
    /\ "application" \in archive
    /\ xfer.object_type = Data
    /\ log[Len(log)].req = "AbortRequest"
    /\ events = <<>>

\* C12: in a session with a softdevice_bootloader or bootloader image and an
\* application image, reset is called with mode Bootloader only and at most
\* once; not while the first image is being transferred; exactly once before
\* the first request of the application is emitted; and when update() has
\* returned success the events are the first image's sleep and
\* reset(Bootloader) followed by the application's sleep of 500 ms alone.
C12_ResetOnceBetweenImages ==
    (FirstModule(archive) # "none" /\ "application" \in archive) =>
       /\ \A i \in ResetsIn(events) : events[i].arg = "Bootloader"
       /\ Cardinality(ResetsIn(events)) <= 1
       /\ role \in {"none", FirstModule(archive)} /\ pc # "returned" =>
             (events = <<>>
              /\ \A i \in 1..Len(log) : log[i].role = FirstModule(archive))
       /\ (\E i \in 1..Len(log) : log[i].role = "application") =>
             (Cardinality(ResetsIn(events)) = 1 /\ ResetsIn(events) = {2})
       /\ (Returned /\ result = Ok) =>
             /\ events = AfterModule(FirstModule(archive))
                         \o <<[call |-> "sleep", arg |-> 500]>>
             /\ ResetsIn(events) = {2}
             /\ \E i \in 1..Len(log) :
                  /\ log[i].role = "application"
                  /\ log[i].req = "PingRequest"
                  /\ \A j \in 1..Len(log) :
                       (j < i) <=> (log[j].role = FirstModule(archive))

C12_Witness ==
    /\ archive = {"bootloader", "application"}
    /\ Returned
    /\ result = Ok
    /\ Len(events) = 3
    /\ events[2] = [call |-> "reset", arg |-> "Bootloader"]
    /\ log[Len(log)].role = "application"
    /\ log[Len(log)].req = "ObjectExecuteRequest"

\* payload of the reply the host decoded for a logged request
ReplyPayload(e) ==
    LET rd == decoded_read(e.stream)
    IN SubSeq(rd.data, 3, Len(rd.data))

ReportedMaxSize(e) == FromLE32(SubSeq(ReplyPayload(e), 1, 4))

ReportedOffset(e) == FromLE32(SubSeq(ReplyPayload(e), 5, 8))

ReportedCrc(e) == SubSeq(ReplyPayload(e), 9, 12)

SelectsIn(l) ==
    {i \in 1..Len(l) : l[i].req = "ObjectSelectRequest" /\ l[i].res = "Ok"}

\* index of the last successful ObjectSelect of the log (0: none)
LastSelect(l) ==
    IF SelectsIn(l) = {} THEN 0
    ELSE CHOOSE i \in SelectsIn(l) : \A j \in SelectsIn(l) : j <= i

\* the bytes handed over in ObjectWrite requests after entry i of the log
RECURSIVE WritesAfter(_, _)
WritesAfter(l, i) ==
    IF i >= Len(l) THEN <<>>
    ELSE (IF l[i + 1].req \in WriteRequests /\ l[i + 1].wrote
          THEN Tail(l[i + 1].data) ELSE <<>>) \o WritesAfter(l, i + 1)

\* C13: with force = true, after every successful ObjectSelect, whatever
\* offset and CRC it reported, the host starts from offset 0 and CRC 0 and
\* its next request is ObjectCreate of min(len(image), max_size) bytes for
\* the selected object type (so no ObjectExecute comes before it); and when
\* transfer_object has returned success, the ObjectWrite requests since the
\* ObjectSelect carry the image, byte for byte.
C13_ForceRestartsFromZero ==
    updater.force =>
       /\ \A i \in SelectsIn(log) :
            LET k == log[i].data[2]
                img == ImageOf(log[i].role, k)
            IN IF i = Len(log)
               THEN /\ pc \in {"loop", "window"}
                    /\ xfer.object_offset = 0
                    /\ xfer.object_crc = Zero32
               ELSE /\ log[i + 1].req = "ObjectCreateRequest"
                    /\ log[i + 1].data =
                         <<1, k>> \o LE32(Min(Len(img), ReportedMaxSize(log[i])))
       /\ (pc = "select" /\ xfer.object_type = Data) =>
             WritesAfter(log, LastSelect(log)) = ImageOf(role, Command)
       /\ pc = "module_ok" =>
             WritesAfter(log, LastSelect(log)) = ImageOf(role, Data)

C13_Witness ==
    /\ updater.force
    /\ pc = "module_ok"
    /\ \E i \in SelectsIn(log) :
         /\ ReportedOffset(log[i]) > 0
         /\ ReportedCrc(log[i]) # Zero32
         /\ log[i + 1].req = "ObjectCreateRequest"
    /\ WritesAfter(log, LastSelect(log)) = ImageOf(role, Data)

\* C14: a reply whose first byte is not 0x60 makes the request, and the
\* update() call, fail with a FramingError, which is not the IOError that a
\* reply that does not arrive (a short read) gives.
C14_FramingErrorDistinct ==
    \A i \in 1..Len(log) :
       LET e == log[i]
       IN /\ (e.read /\ e.stream # <<>> /\ e.stream[1] # FRAME_START) =>
                /\ e.res = "FramingError"
                /\ err.res = "FramingError"
                /\ Returned => result.res # "IOError"
          /\ (e.read /\ e.stream = <<>>) =>
                (e.res = "IOError" /\ err.res = "IOError")

\* C15: when encoded_write returns success, the writer has accepted the
\* whole encoded frame, its END byte included, also when its write call
\* accepts fewer bytes than it is offered.
C15_WholeFrameWritten ==
    (fn.pc \in {"decoded_read", "slip_done"} /\ fn.wres = "Ok") =>
       /\ fn.wire = slip_frame(fn.buf)
       /\ fn.size = Len(slip_frame(fn.buf))
       /\ fn.wire[Len(fn.wire)] = SLIP_END

IsPrefix(a, b) == Len(a) <= Len(b) /\ a = SubSeq(b, 1, Len(a))

\* the log up to, and without, the first ObjectSelect after entry i
UpToNextSelect(l, i) ==
    LET later == {j \in SelectsIn(l) : j > i}
    IN IF later = {} THEN l
       ELSE SubSeq(l, 1, (CHOOSE j \in later : \A n \in later : j <= n) - 1)

\* ObjectSelect entry i reported a nonzero multiple of max_size below the
\* length of the image
AtFilledWindow(l, i) ==
    LET img == ImageOf(l[i].role, l[i].data[2])
        o == ReportedOffset(l[i])
    IN o > 0 /\ o % ReportedMaxSize(l[i]) = 0 /\ o < Len(img)

\* C16: with force = false, after an ObjectSelect that reported an offset o
\* that is a nonzero multiple of max_size and below len(image), the next
\* request is ObjectExecute; after its success the next is ObjectCreate of
\* min(len(image), o + max_size) - o bytes; and the ObjectWrite requests of
\* the transfer carry image[o..], from o on: no byte below o is sent.
C16_ResumeAtBoundary ==
    ~updater.force =>
       \A i \in SelectsIn(log) :
          AtFilledWindow(log, i) =>
             LET k == log[i].data[2]
                 img == ImageOf(log[i].role, k)
                 o == ReportedOffset(log[i])
                 m == ReportedMaxSize(log[i])
             IN /\ i = Len(log) => (pc = "loop" /\ xfer.object_offset = o)
                /\ i < Len(log) =>
                      /\ log[i + 1].req = "ObjectExecuteRequest"
                      /\ log[i + 1].res = "Ok" =>
                            IF i + 1 = Len(log)
                            THEN pc = "window" /\ xfer.object_offset = o
                            ELSE /\ log[i + 2].req = "ObjectCreateRequest"
                                 /\ log[i + 2].data =
                                      <<1, k>> \o LE32(Min(Len(img), o + m) - o)
                /\ IsPrefix(WritesAfter(UpToNextSelect(log, i), i),
                            SubSeq(img, o + 1, Len(img)))

C16_Witness ==
    /\ ~updater.force
    /\ pc = "module_ok"
    /\ LastSelect(log) > 0
    /\ AtFilledWindow(log, LastSelect(log))
    /\ ReportedOffset(log[LastSelect(log)]) = 2
    /\ log[LastSelect(log) + 1].req = "ObjectExecuteRequest"
    /\ log[LastSelect(log) + 2].req = "ObjectCreateRequest"
    /\ WritesAfter(log, LastSelect(log)) = <<3, 4>>

\* ObjectSelect entry i reported an offset strictly inside a window, within
\* the image, with a CRC that is not the CRC of the image up to the offset
MidWindowMismatch(l, i) ==
    LET img == ImageOf(l[i].role, l[i].data[2])
        o == ReportedOffset(l[i])
    IN /\ o % ReportedMaxSize(l[i]) # 0
       /\ o <= Len(img)
       /\ ReportedCrc(l[i]) # checksum_ieee(SubSeq(img, 1, o))

\* C17: with force = false and a device that answers every request
\* truthfully, after an ObjectSelect that reported an offset inside a window
\* and a CRC that does not match the image, the next request is ObjectCreate
\* and the transfer of the object does not fail; when it has returned
\* success the device has executed exactly the image.
C17_RecreateRecovers ==
    (~updater.force /\ faults = 0) =>
       \A i \in SelectsIn(log) :
          (i = LastSelect(log) /\ MidWindowMismatch(log, i)) =>
             /\ i < Len(log) => log[i + 1].req = "ObjectCreateRequest"
             /\ err = NoError
             /\ (pc = "module_ok"
                 \/ (pc = "select" /\ xfer.object_type = Data)) =>
                   dev.obj[log[i].data[2]].exec
                      = ImageOf(log[i].role, log[i].data[2])

\* number of ObjectWrite requests at the end of the first i entries of the
\* log: the position, counted from 1, of chunk i in its write_object call
RECURSIVE ChunkNo(_, _)
ChunkNo(l, i) ==
    IF i = 0 \/ l[i].req \notin WriteRequests THEN 0
    ELSE 1 + ChunkNo(l, i - 1)

\* CRC of the receipt the host decoded for an acknowledged write
ReceiptCrc(e) == SubSeq(ReplyPayload(e), 5, 8)

\* C18: with PRN = N > 0 the k-th chunk of a write_object call is an
\* acknowledged ObjectWrite, whose receipt is read, exactly when k is a
\* multiple of N, and an unacknowledged one, after which nothing is read,
\* otherwise; with N = 0 every chunk is unacknowledged.  A receipt whose CRC
\* is not the host's running CRC ends the call with CrcMismatch: no further
\* chunk follows, only the Abort; a receipt with the running CRC lets the
\* call go on.
C18_ReceiptEveryNth ==
    \A i \in 1..Len(log) :
       LET e == log[i]
           N == updater.prn
           ack == N > 0 /\ ChunkNo(log, i) % N = 0
       IN e.req \in WriteRequests =>
            /\ e.req = (IF ack THEN "ObjectWriteRequest_ObjectWriteResponse"
                        ELSE "ObjectWriteRequest_NoResponse")
            /\ e.wrote => (e.read <=> ack)
            /\ (ack /\ e.res = "Ok") =>
                  IF i = Len(log)
                  THEN IF ReceiptCrc(e) = xfer.object_crc
                       THEN pc = "write" /\ err = NoError
                       ELSE /\ pc = "abort"
                            /\ err = [res |-> "CrcMismatch", kind |-> "None"]
                  ELSE log[i + 1].req \in WriteRequests
                                          \cup {"GetCrcRequest", "AbortRequest"}
            /\ (ack /\ e.res = "Ok" /\ i < Len(log)
                /\ log[i + 1].req = "AbortRequest") =>
                  err = [res |-> "CrcMismatch", kind |-> "None"]

C18_Witness ==
    /\ updater.prn = 2
    /\ updater.chunk_size = 1
    /\ pc = "abort"
    /\ err = [res |-> "CrcMismatch", kind |-> "None"]
    /\ Len(log) > 4
    /\ ChunkNo(log, Len(log)) = 4
    /\ log[Len(log) - 2].req = "ObjectWriteRequest_ObjectWriteResponse"
    /\ log[Len(log) - 2].res = "Ok"
    /\ log[Len(log) - 1].req = "ObjectWriteRequest_NoResponse"
    /\ log[Len(log)].req = "ObjectWriteRequest_ObjectWriteResponse"
    /\ log[Len(log)].res = "Ok"
    /\ ReceiptCrc(log[Len(log)]) # xfer.object_crc

\* payload bytes of the ObjectWrite requests of the log since its last
\* ObjectCreate, ObjectSelect or ObjectExecute
RECURSIVE BytesInWindow(_)
BytesInWindow(l) ==
    IF l = <<>>
       \/ l[Len(l)].req \in {"ObjectCreateRequest", "ObjectSelectRequest",
                             "ObjectExecuteRequest"}
    THEN 0
    ELSE (IF l[Len(l)].req \in WriteRequests /\ l[Len(l)].wrote
          THEN Len(l[Len(l)].data) - 1 ELSE 0)
         + BytesInWindow(SubSeq(l, 1, Len(l) - 1))

\* value of a little-endian u32 below 256; 256 stands for every larger one
Small32(b) == IF b[2] = 0 /\ b[3] = 0 /\ b[4] = 0 THEN b[1] ELSE 256

\* the object_size field of a logged ObjectCreate
CreateSize(e) == Small32(SubSeq(e.data, 3, 6))

\* C19: in every state the ObjectWrite requests since the last ObjectCreate
\* (or ObjectSelect) and before the next ObjectExecute carry at most max_size
\* bytes, and every ObjectCreate carries a size from 1 to max_size.
C19_WindowBound ==
    /\ BytesInWindow(log) <= dev.max_size
    /\ \A i \in 1..Len(log) :
         log[i].req = "ObjectCreateRequest" =>
            (CreateSize(log[i]) >= 1 /\ CreateSize(log[i]) <= dev.max_size)

\* index of the first request of module r in the log
RoleStart(l, r) ==
    CHOOSE i \in 1..Len(l) :
       l[i].role = r /\ \A j \in 1..Len(l) : l[j].role = r => i <= j

\* the Data object of module r has been selected before entry i
DataSelectedBefore(l, r, i) ==
    \E j \in 1..(i - 1) :
       l[j].role = r /\ l[j].req = "ObjectSelectRequest"
       /\ l[j].data = <<6, Data>>

IsSlice(a, b) ==
    \E n \in 1..Len(b) :
       n + Len(a) - 1 <= Len(b) /\ a = SubSeq(b, n, n + Len(a) - 1)

PingMismatch == [res |-> "PingMismatch", kind |-> "None"]

\* C20: the requests of each module come in the order Ping with id 0x7F,
\* SetReceiptNotify with prn, GetMtu, ObjectSelect(Command), the transfer of
\* the init packet, ObjectSelect(Data), the transfer of the image; the
\* request before ObjectSelect(Data) is a successful ObjectExecute of the
\* Command object, and until then every ObjectWrite carries bytes of the
\* init packet, afterwards of the image; an error in between is followed by
\* the Abort only.  A Ping reply with another id than 0x7F gives
\* PingMismatch and no SetReceiptNotify.
C20_FixedOrder ==
    \A i \in 1..Len(log) :
       LET e == log[i]
           r == e.role
           j == i - RoleStart(log, r) + 1
       IN /\ j = 1 => e.data = <<9, 127>> /\ e.req = "PingRequest"
          /\ j = 2 => \/ e.req = "AbortRequest"
                      \/ e.data = <<2>> \o LE16(updater.prn)
                         /\ e.req = "SetReceiptNotifyRequest"
          /\ j = 3 => \/ e.req = "AbortRequest"
                      \/ e.req = "GetMtuRequest" /\ e.data = <<7>>
          /\ j = 4 => \/ e.req = "AbortRequest"
                      \/ e.req = "ObjectSelectRequest"
                         /\ e.data = <<6, Command>>
          /\ j > 4 => /\ e.req \notin {"PingRequest", "SetReceiptNotifyRequest",
                                       "GetMtuRequest"}
                      /\ e.req = "ObjectSelectRequest" =>
                            /\ e.data = <<6, Data>>
                            /\ ~DataSelectedBefore(log, r, i)
                            /\ log[i - 1].req = "ObjectExecuteRequest"
                            /\ log[i - 1].res = "Ok"
          /\ e.req \in {"ObjectCreateRequest", "ObjectSelectRequest"} =>
                e.data[2] = (IF DataSelectedBefore(log, r, i + 1)
                             THEN Data ELSE Command)
          /\ e.req \in WriteRequests =>
                /\ j > 4
                /\ IsSlice(Tail(e.data),
                           ImageOf(r, IF DataSelectedBefore(log, r, i)
                                      THEN Data ELSE Command))
          /\ (e.req # "AbortRequest" /\ e.res \notin {"Ok"}
              /\ ~(NotSupported(e)
                   /\ e.req \in {"PingRequest", "GetMtuRequest"})) =>
                (i < Len(log) => log[i + 1].req = "AbortRequest")
          /\ (e.req = "PingRequest" /\ e.res = "Ok"
              /\ ReplyPayload(e) # <<127>>) =>
                /\ err = PingMismatch
                /\ IF i = Len(log) THEN pc = "abort"
                   ELSE log[i + 1].req = "AbortRequest"

C20_Witness ==
    /\ archive = {"softdevice_bootloader", "application"}
    /\ role = "application"
    /\ pc = "abort"
    /\ err = PingMismatch
    /\ log[Len(log)].req = "PingRequest"
    /\ log[Len(log)].res = "Ok"
    /\ \E i \in 5..Len(log) :
         /\ log[i].role = "softdevice_bootloader"
         /\ log[i].req = "ObjectSelectRequest"
         /\ log[i].data = <<6, Data>>
         /\ log[i - 1].req = "ObjectExecuteRequest"
         /\ log[4].data = <<6, Command>>

\* ObjectSelect entry i reported the end of a window or of the image
AtWindowEnd(l, i) ==
    LET img == ImageOf(l[i].role, l[i].data[2])
        o == ReportedOffset(l[i])
    IN o > 0 /\ (o % ReportedMaxSize(l[i]) = 0 \/ o = Len(img))

\* one ObjectExecute follows each window the host has written and checked,
\* and none is sent otherwise but at a resume on the end of a window
OneExecutePerWindow ==
    \A i \in 1..Len(log) :
       /\ log[i].req = "GetCrcRequest" =>
             /\ log[i].res = "Ok"
             /\ IF i = Len(log) THEN pc = "loop"
                ELSE log[i + 1].req = "ObjectExecuteRequest"
       /\ log[i].req = "ObjectExecuteRequest" =>
             /\ i > 1
             /\ \/ log[i - 1].req = "GetCrcRequest"
                \/ log[i - 1].req = "ObjectSelectRequest"
                   /\ AtWindowEnd(log, i - 1)
             /\ log[i].res = "Ok"
       /\ (log[i].req = "ObjectSelectRequest" /\ i < Len(log)) =>
             (log[i + 1].req = "ObjectExecuteRequest" <=> AtWindowEnd(log, i))

\* the modules update() runs for an archive
ModulesOf(a) ==
    ({FirstModule(a)} \ {"none"}) \cup (a \cap {"application"})

\* the log holds a transfer of object k of module r that ended with a
\* successful ObjectExecute
Transferred(l, r, k) ==
    \E i \in SelectsIn(l) :
       LET t == UpToNextSelect(l, i)
           last == CHOOSE n \in i..Len(t) :
                      /\ t[n].role = r
                      /\ \A j \in i..Len(t) : t[j].role = r => j <= n
       IN /\ l[i].role = r
          /\ l[i].data = <<6, k>>
          /\ t[last].req = "ObjectExecuteRequest"
          /\ t[last].res = "Ok"

\* update() has returned success, having transferred both objects of every
\* module, with one ObjectExecute per completed window
TransferredAll ==
    /\ Returned
    /\ result = Ok
    /\ err = NoError
    /\ \A r \in ModulesOf(archive) : \A k \in ObjectType :
          Transferred(log, r, k)
    /\ OneExecutePerWindow

\* C21: against a device that answers every request truthfully and with
\* success, for max_size from 1 to MaxWindow, chunk sizes 1, 2, 3 and every
\* prefix of the image the device can hold, update() eventually returns
\* success, after finitely many requests, each transfer_object having ended
\* with its ObjectExecute; and each window the host completed was followed
\* by exactly one ObjectExecute.
C21_TransferTerminates == <>TransferredAll

C21_Witness ==
    /\ Returned
    /\ result = Ok
    /\ dev.max_size = 2
    /\ updater.chunk_size = 2
    /\ archive = {"application"}
    /\ dev.obj[Data].exec = <<1, 2, 3>>
    /\ \E i \in SelectsIn(log) :
         /\ log[i].data = <<6, Data>>
         /\ ReportedOffset(log[i]) = 1
         /\ Len(log) = i + 7

TransferPcs == {"select", "loop", "window", "write", "module_ok"}

\* the panic of the u16 subtraction (mtu / 2) - 1
MtuOverflow ==
    /\ err = Panic("overflow")
    /\ log # <<>>
    /\ log[Len(log)].req = "GetMtuRequest"

\* C22: after a successful GetMtu reply, whatever MTU it carried, the chunk
\* size (mtu / 2) - 1 has been computed without overflow, lies between 1 and
\* 32766, and write_object splits its window into chunks without a panic.
C22_ChunkSizeInRange ==
    /\ ~MtuOverflow
    /\ err # Panic("chunks(0)")
    /\ pc \in TransferPcs => updater.chunk_size \in 1..32766

\* C23: whatever max_size, offset and CRC the device reports, the transfer
\* loop does not divide by zero, does not slice the image out of its bounds
\* and does not compute a negative ObjectCreate size; at every loop head the
\* offset is within the image.
C23_LoopArithmeticSafe ==
    /\ err.res = "Panic" =>
          /\ err.kind \notin {"rem by zero", "slice"}
          /\ err.kind = "overflow" => MtuOverflow
    /\ pc = "loop" => xfer.object_offset <= Len(data)
    /\ \A i \in 1..Len(log) :
          log[i].req = "ObjectCreateRequest" => CreateSize(log[i]) < 256

====
